---- MODULE Spec2Model ----
(***************************************************************************)
(* A model of DiscordLevelingCard/discord_card.py: the RankCard class, its *)
(* number abbreviation (_convert_number), its remote fetch (_image) and    *)
(* the coroutine card1, cut at its two suspension points (the awaited      *)
(* fetch of the background and of the avatar).                             *)
(***************************************************************************)
EXTENDS Integers, Sequences, FiniteSets, TLC

(***************************************************************************)
(* Python integers are unbounded; the checker's are 32 bits wide.  A       *)
(* Python int n >= 0 is carried as [hi, lo] with n = hi * Base + lo and    *)
(* 0 <= lo < Base, so that 2300000000 is [hi |-> 2300, lo |-> 0].          *)
(***************************************************************************)
Base == 1000000

Num(hi, lo) == [hi |-> hi, lo |-> lo]

Int2Num(k) == Num(k \div Base, k % Base)

NumGE(a, b) == a.hi > b.hi \/ (a.hi = b.hi /\ a.lo >= b.lo)

NumLE(a, b) == NumGE(b, a)

NumGT(a, b) == ~NumGE(b, a)

\* a * k for a small factor k (k * Base stays within 32 bits)
NumMul(a, k) == Num(a.hi * k + (a.lo * k) \div Base, (a.lo * k) % Base)

NumMax(a, b) == IF NumGE(a, b) THEN a ELSE b

\* floor(a / m) and a mod m, for m a power of ten of at most 10 digits
NumDivMod(a, m) ==
    IF m >= Base
    THEN [q |-> a.hi \div (m \div Base),
          r |-> (a.hi % (m \div Base)) * Base + a.lo]
    ELSE [q |-> a.hi * (Base \div m) + a.lo \div m,
          r |-> a.lo % m]

\* str(number) of a number below Base
str(number) == ToString(number.lo)

(***************************************************************************)
(* f"{number / divisor:.1f}": the true division gives the double nearest   *)
(* to the quotient; the format prints that double, correctly rounded, with *)
(* one decimal digit.  The two roundings differ from rounding the exact    *)
(* quotient only when the quotient is a decimal tie x.y5 = k/20 (k odd):   *)
(* with 2^e <= quotient < 2^(e+1) the double is k * 2^(50-e) / 5, rounded  *)
(* to an integer, over 2^(52-e), so that the remainder of k * 2^(50-e)     *)
(* modulo 5 says on which side of the tie the double lies (0: on it, and   *)
(* the format rounds half to even).                                        *)
(***************************************************************************)
RECURSIVE FloorLog2(_)
FloorLog2(n) == IF n <= 1 THEN 0 ELSE 1 + FloorLog2(n \div 2)

Pow2Mod5(k) == << 1, 2, 4, 3 >>[(k % 4) + 1]

FormatTenths(t) == ToString(t \div 10) \o "." \o ToString(t % 10)

\* divisor10 is divisor / 10
FormatF1(number, divisor10) ==
    LET d  == NumDivMod(number, divisor10)
        t  == d.q
        e  == FloorLog2(t \div 10)
        r5 == (((2 * t + 1) % 5) * Pow2Mod5(50 - e)) % 5
        up == IF 2 * d.r > divisor10 THEN TRUE
              ELSE IF 2 * d.r < divisor10 THEN FALSE
              ELSE IF r5 = 0 THEN t % 2 = 1
              ELSE r5 >= 3
    IN  FormatTenths(IF up THEN t + 1 ELSE t)

Billion == Num(1000, 0)
Million == Num(1, 0)
Thousand == Num(0, 1000)

\* a variant: each threshold is compared with > in place of >=
_convert_number_strict(number) ==
    IF NumGT(number, Billion) THEN FormatF1(number, 100000000) \o "B"
    ELSE IF NumGT(number, Million) THEN FormatF1(number, 100000) \o "M"
    ELSE IF NumGT(number, Thousand) THEN FormatF1(number, 100) \o "K"
    ELSE str(number)

_convert_number(number) ==
    IF NumGE(number, Billion) THEN FormatF1(number, 100000000) \o "B"
    ELSE IF NumGE(number, Million) THEN FormatF1(number, 100000) \o "M"
    ELSE IF NumGE(number, Thousand) THEN FormatF1(number, 100) \o "K"
    ELSE str(number)

(***************************************************************************)
(* Python values.  Every value is a record with a type field.              *)
(***************************************************************************)
NoneVal == [type |-> "NoneType"]

\* a str, kept as its first four characters and the rest
Str(head, tail) == [type |-> "str", head |-> head, tail |-> tail]

StartsWithHttp(s) == s.head = "http"

\* an io.IOBase object: what seekable(), readable() and the mode attribute give
\* (has_mode FALSE: the object has no mode attribute, as io.BytesIO), and
\* whether it yields bytes
IOBase(cls, seekable, readable, has_mode, mode, binary) ==
    [type |-> "IOBase", cls |-> cls, seekable |-> seekable, readable |-> readable,
     has_mode |-> has_mode, mode |-> mode, binary |-> binary]

Streams ==
    { IOBase("BufferedReader", TRUE, TRUE, TRUE, "rb", TRUE),     \* open(p, "rb")
      IOBase("TextIOWrapper", TRUE, TRUE, TRUE, "r", FALSE),      \* open(p, "r")
      IOBase("BufferedWriter", TRUE, FALSE, TRUE, "wb", TRUE),    \* open(p, "wb")
      IOBase("BufferedRandom", TRUE, TRUE, TRUE, "rb+", TRUE),    \* open(p, "rb+")
      IOBase("FileIO", FALSE, TRUE, TRUE, "rb", TRUE),            \* a pipe read end
      IOBase("BytesIO", TRUE, TRUE, FALSE, "", TRUE),             \* io.BytesIO(data)
      IOBase("StringIO", TRUE, TRUE, FALSE, "", FALSE) }          \* io.StringIO(text)

BgUrl == Str("http", "s://cdn.example/bg.png")
AvUrl == Str("http", "s://cdn.example/avatar.png")
BgPath == Str("imag", "es/bg.png")
MissingPath == Str("imag", "es/missing.png")
AvPath == Str("imag", "es/avatar.png")
BytesVal == [type |-> "bytes"]

\* the files open(path, "rb") finds
ExistingFiles == { BgPath, AvPath }

Urls == { BgUrl, AvUrl }
Statuses == { 200, 203, 404 }

\* PIL.Image.open(source): a decoded image of the source's natural size
NaturalSize == << 800, 600 >>
ImageOpen(source) ==
    [type |-> "Image", size |-> NaturalSize,
     pixels |-> [of |-> "decoded", source |-> source]]

Resize(im, size) == [im EXCEPT !.size = size]

\* assets/overlay1.png, whose size the text coordinates of card1 assume
OverlaySize == << 638, 327 >>

Inst == { "card_a", "card_b" }
MaxCalls == 2
Call == 1 .. MaxCalls

VARIABLES
    web,         \* the status the server answers for each URL
    live,        \* the RankCard instances card1 is called on
    ctor,        \* the arguments each instance was constructed with
    obj,         \* the slots of each instance
    pc,          \* where each card1 call is
    this,        \* the instance (self) of each call
    url,         \* the URL a suspended call is fetching
    exc,         \* the exception a call raised
    ret,         \* the value a call returned
    bg_seen,     \* the background a call found in self.background
    steps,       \* the stages a call completed, in order
    reqs,        \* the HTTP requests a call issued, in order
    resp,        \* the statuses a call was answered, in order
    overlapped   \* the calls each call ran concurrently with

vars == << web, live, ctor, obj, pc, this, url, exc, ret, bg_seen, steps, reqs,
           resp, overlapped >>

\* RankCard.__init__
__init__(settings, avatar, level, username, current_exp, max_exp) ==
    [background |-> settings.background,
     avatar |-> avatar,
     level |-> level,
     username |-> username,
     current_exp |-> current_exp,
     max_exp |-> max_exp,
     bar_color |-> settings.bar_color,
     text_color |-> settings.text_color]

NewCard(a) ==
    __init__(a.settings, a.avatar, a.level, a.username, a.current_exp, a.max_exp)

(***************************************************************************)
(* What a synchronous stretch of card1 does: the slots it leaves, where    *)
(* the call is then, the exception raised or the value returned, the URL   *)
(* it awaits, the stages it completed and the requests it issued.          *)
(***************************************************************************)
Raise(o, e, did) ==
    [obj |-> o, pc |-> "raised", exc |-> e, ret |-> NoneVal, url |-> NoneVal,
     did |-> did, get |-> << >>]

Await(o, u, at, what, did) ==
    [obj |-> o, pc |-> at, exc |-> "", ret |-> NoneVal, url |-> u,
     did |-> did, get |-> << [for |-> what, url |-> u] >>]

Return(o, v, did) ==
    [obj |-> o, pc |-> "returned", exc |-> "", ret |-> v, url |-> NoneVal,
     did |-> did, get |-> << >>]

\* a variant: every status from 200 to 299 is taken as a success
_image_any_2xx(u) ==
    IF web[u] \notin 200 .. 299
    THEN [exc |-> "InvalidImageUrl", image |-> NoneVal]
    ELSE [exc |-> "", image |-> ImageOpen(u)]

\* RankCard._image, answered with web[u]
_image(u) ==
    IF web[u] # 200
    THEN [exc |-> "InvalidImageUrl", image |-> NoneVal]
    ELSE [exc |-> "", image |-> ImageOpen(u)]

\* a variant: the width is capped at 420
bar_exp_capped(current_exp, max_exp) ==
    IF max_exp = Num(0, 0)
    THEN [exc |-> "ZeroDivisionError", num |-> Num(0, 0), den |-> Num(0, 1)]
    ELSE IF NumLE(NumMul(current_exp, 420), NumMul(max_exp, 50))
         THEN [exc |-> "", num |-> NumMul(max_exp, 50), den |-> max_exp]
         ELSE IF NumGE(current_exp, max_exp)
              THEN [exc |-> "", num |-> NumMul(max_exp, 420), den |-> max_exp]
              ELSE [exc |-> "", num |-> NumMul(current_exp, 420), den |-> max_exp]

\* a variant: max_exp = 0 gives the minimum width in place of raising
bar_exp_zero_guarded(current_exp, max_exp) ==
    IF max_exp = Num(0, 0)
    THEN [exc |-> "", num |-> Num(0, 50), den |-> Num(0, 1)]
    ELSE IF NumLE(NumMul(current_exp, 420), NumMul(max_exp, 50))
         THEN [exc |-> "", num |-> NumMul(max_exp, 50), den |-> max_exp]
         ELSE [exc |-> "", num |-> NumMul(current_exp, 420), den |-> max_exp]

\* bar_exp of card1, as the fraction num / den; the division raises on max_exp = 0
bar_exp(current_exp, max_exp) ==
    IF max_exp = Num(0, 0)
    THEN [exc |-> "ZeroDivisionError", num |-> Num(0, 0), den |-> Num(0, 1)]
    ELSE IF NumLE(NumMul(current_exp, 420), NumMul(max_exp, 50))
         THEN [exc |-> "", num |-> NumMul(max_exp, 50), den |-> max_exp]
         ELSE [exc |-> "", num |-> NumMul(current_exp, 420), den |-> max_exp]

\* image = BytesIO(); save(image, 'PNG'); image.seek(0)
SaveAndSeek(im) ==
    LET data == << "PNG", im >>
        saved == [type |-> "BytesIO", data |-> data, pos |-> Len(data)]
    IN  [saved EXCEPT !.pos = 0]

\* a variant: the card keeps the size of the overlay
FinalResizeSkipped(im) == im

\* the last resize of card1
FinalResize(im) == Resize(im, << 505, 259 >>)

\* card1 from the resize of the avatar to its return
Compose(o, did) ==
    LET avatar == Resize(o.avatar, << 170, 170 >>)
        backgroundover == Resize(o.background, << 638, 159 >>)
        canvas == [type |-> "Image", size |-> OverlaySize,
                   pixels |-> [of |-> "canvas",
                               background |-> backgroundover.pixels,
                               username |-> o.username,
                               text_color |-> o.text_color]]
        o1 == [o EXCEPT !.avatar = avatar, !.background = canvas]
        bar == bar_exp(o.current_exp, o.max_exp)
        card == [type |-> "Image", size |-> OverlaySize,
                 pixels |-> [of |-> "card",
                             background |-> backgroundover.pixels,
                             username |-> o.username,
                             text_color |-> o.text_color,
                             level_text |-> "LEVEL - " \o _convert_number(o.level),
                             exp_text |-> _convert_number(o.current_exp) \o "/"
                                            \o _convert_number(o.max_exp),
                             avatar |-> avatar.pixels,
                             bar_num |-> bar.num,
                             bar_den |-> bar.den,
                             bar_color |-> o.bar_color]]
        final == FinalResize(card)
    IN  IF bar.exc # ""
        THEN Raise(o1, bar.exc, did)
        ELSE Return([o1 EXCEPT !.background = final], SaveAndSeek(final),
                    did \o << "compose" >>)

\* a variant: a string that is no URL is refused with TypeError
AvatarStageRefusingPaths(o, did) ==
    IF o.avatar.type = "str" /\ StartsWithHttp(o.avatar)
    THEN Await(o, o.avatar, "av_fetch", "avatar", did)
    ELSE Raise(o, "TypeError", did)

\* card1 from the test of self.avatar to the fetch of the avatar
AvatarStage(o, did) ==
    IF o.avatar.type = "str"
    THEN IF StartsWithHttp(o.avatar)
         THEN Await(o, o.avatar, "av_fetch", "avatar", did)
         ELSE Raise(o, "AttributeError", did)    \* str has no resize
    ELSE Raise(o, "TypeError", did)

\* card1 from its first line to its first suspension, raise or return
BackgroundStage(o) ==
    LET b == o.background
        opened == AvatarStage([o EXCEPT !.background = ImageOpen(b)],
                              << "background" >>)
    IN  IF b.type = "IOBase"
        THEN IF ~b.seekable THEN Raise(o, "InvalidImageType", << >>)
             ELSE IF ~b.readable THEN Raise(o, "InvalidImageType", << >>)
             ELSE IF ~b.has_mode THEN Raise(o, "AttributeError", << >>)
             ELSE IF b.mode # "rb" THEN Raise(o, "InvalidImageType", << >>)
             ELSE opened
        ELSE IF b.type = "str"
        THEN IF StartsWithHttp(b)
             THEN Await(o, b, "bg_fetch", "background", << >>)
             ELSE IF b \in ExistingFiles THEN opened
             ELSE Raise(o, "FileNotFoundError", << >>)
        ELSE Raise(o, "InvalidImageType", << >>)

\* a variant: a failed fetch of the background is ignored
ResumeBackgroundIgnoringFailure(o, r) ==
    IF r.exc # ""
    THEN AvatarStage(o, << >>)
    ELSE AvatarStage([o EXCEPT !.background = r.image], << "background" >>)

\* card1 resumed with the answer r of the background's fetch
ResumeBackground(o, r) ==
    IF r.exc # ""
    THEN Raise(o, r.exc, << >>)
    ELSE AvatarStage([o EXCEPT !.background = r.image], << "background" >>)

\* card1 resumed with the answer r of the avatar's fetch
ResumeAvatar(o, r) ==
    IF r.exc # ""
    THEN Raise(o, r.exc, << >>)
    ELSE Compose([o EXCEPT !.avatar = r.image], << "avatar" >>)

InFlight == { c \in Call : pc[c] \in { "bg_fetch", "av_fetch" } }

\* call c, on instance i, ran a stretch with effect eff, answered with answers
Apply(c, i, eff, answers) ==
    /\ obj' = [obj EXCEPT ![i] = eff.obj]
    /\ pc' = [pc EXCEPT ![c] = eff.pc]
    /\ this' = [this EXCEPT ![c] = i]
    /\ url' = [url EXCEPT ![c] = eff.url]
    /\ exc' = [exc EXCEPT ![c] = eff.exc]
    /\ ret' = [ret EXCEPT ![c] = eff.ret]
    /\ steps' = [steps EXCEPT ![c] = @ \o eff.did]
    /\ reqs' = [reqs EXCEPT ![c] = @ \o eff.get]
    /\ resp' = [resp EXCEPT ![c] = @ \o answers]
    /\ overlapped' = [d \in Call |->
                        IF d = c THEN overlapped[d] \cup (InFlight \ { c })
                        ELSE IF d \in InFlight THEN overlapped[d] \cup { c }
                        ELSE overlapped[d]]
    /\ UNCHANGED << web, live, ctor >>

\* a caller awaits card1() of instance i
Card1(c, i) ==
    /\ pc[c] = "idle"
    /\ i \in live
    /\ bg_seen' = [bg_seen EXCEPT ![c] = obj[i].background]
    /\ Apply(c, i, BackgroundStage(obj[i]), << >>)

\* the fetch of the background answers
BackgroundFetched(c) ==
    /\ pc[c] = "bg_fetch"
    /\ Apply(c, this[c], ResumeBackground(obj[this[c]], _image(url[c])),
             << web[url[c]] >>)
    /\ UNCHANGED bg_seen

\* the fetch of the avatar answers
AvatarFetched(c) ==
    /\ pc[c] = "av_fetch"
    /\ Apply(c, this[c], ResumeAvatar(obj[this[c]], _image(url[c])),
             << web[url[c]] >>)
    /\ UNCHANGED bg_seen

Next ==
    \E c \in Call :
        \/ \E i \in Inst : Card1(c, i)
        \/ BackgroundFetched(c)
        \/ AvatarFetched(c)

(***************************************************************************)
(* Initial states: the instances as constructed, no call made yet.         *)
(***************************************************************************)
Settings(background) ==
    [background |-> background, bar_color |-> "#00fa81", text_color |-> "white"]

Args(background, avatar, level, current_exp, max_exp) ==
    [settings |-> Settings(background), avatar |-> avatar, level |-> level,
     username |-> "user#0001", current_exp |-> current_exp, max_exp |-> max_exp]

DefaultArgs == Args(BgUrl, AvUrl, Num(0, 5), Num(0, 5), Num(0, 10))

InitWith(w, l, a) ==
    /\ web = w
    /\ live = l
    /\ ctor = a
    /\ obj = [i \in Inst |-> NewCard(a[i])]
    /\ pc = [c \in Call |-> "idle"]
    /\ this = [c \in Call |-> ""]
    /\ url = [c \in Call |-> NoneVal]
    /\ exc = [c \in Call |-> ""]
    /\ ret = [c \in Call |-> NoneVal]
    /\ bg_seen = [c \in Call |-> NoneVal]
    /\ steps = [c \in Call |-> << >>]
    /\ reqs = [c \in Call |-> << >>]
    /\ resp = [c \in Call |-> << >>]
    /\ overlapped = [c \in Call |-> { }]

\* two instances, sources that may resolve, max_exp zero or not
CardArgs ==
    { Args(b, a, Num(0, 5), Num(0, 5), m) :
        b \in { BgUrl, BgPath, IOBase("BufferedReader", TRUE, TRUE, TRUE, "rb", TRUE) },
        a \in { AvUrl, AvPath },
        m \in { Num(0, 0), Num(0, 10) } }

Init ==
    \E w \in [Urls -> Statuses], a \in [Inst -> CardArgs] : InitWith(w, Inst, a)

Spec == Init /\ [][Next]_vars

\* one instance, every kind of background and avatar source
BgSources == Streams \cup { BgUrl, BgPath, MissingPath, NoneVal }
AvSources == { AvUrl, AvPath, BytesVal }

SourceArgs ==
    { Args(b, a, Num(0, 5), Num(0, 5), m) :
        b \in BgSources, a \in AvSources, m \in { Num(0, 0), Num(0, 10) } }

InitSources ==
    \E w \in [Urls -> Statuses], a \in SourceArgs :
        InitWith(w, { "card_a" }, [i \in Inst |-> IF i = "card_a" THEN a ELSE DefaultArgs])

SpecSources == InitSources /\ [][Next]_vars

\* two instances, sources that resolve, every pair of experience values
ExpValues == { 0, 1, 4, 5, 6, 10, 21, 42, 50 }
MaxExpValues == { 10, 42 }

BarArgs ==
    { Args(BgUrl, AvUrl, Num(0, 5), Int2Num(x), Int2Num(m)) :
        x \in ExpValues, m \in MaxExpValues }

InitBar ==
    \E a \in [Inst -> BarArgs] : InitWith([u \in Urls |-> 200], Inst, a)

SpecBar == InitBar /\ [][Next]_vars

\* one instance, sources that resolve, numbers of every tier
LevelValues ==
    { Num(0, 0), Num(0, 7), Num(0, 999), Num(0, 1000), Num(0, 1049), Num(0, 1050),
      Num(0, 1250), Num(0, 1350), Num(0, 1500), Num(0, 999949), Num(0, 999950),
      Num(0, 999999), Num(1, 0), Num(1, 500000), Num(999, 949999), Num(999, 950000),
      Num(999, 999999), Num(1000, 0), Num(2300, 0), Num(2350, 0) }
FormatExpValues == { Num(0, 0), Num(0, 999), Num(0, 1000), Num(1, 500000) }
FormatMaxExpValues == { Num(0, 1000), Num(1, 500000), Num(2300, 0) }

FormatArgs ==
    { Args(BgUrl, AvUrl, l, x, m) :
        l \in LevelValues, x \in FormatExpValues, m \in FormatMaxExpValues }

InitFormat ==
    \E a \in FormatArgs :
        InitWith([u \in Urls |-> 200], { "card_a" },
                 [i \in Inst |-> IF i = "card_a" THEN a ELSE DefaultArgs])

SpecFormat == InitFormat /\ [][Next]_vars

(***************************************************************************)
(* The claims.                                                             *)
(***************************************************************************)
Finished(c) == pc[c] \in { "returned", "raised" }
Resolved(c) == Len(steps[c]) >= 2 /\ steps[c][1] = "background" /\ steps[c][2] = "avatar"
Self(c) == obj[this[c]]
Positive(n) == NumGT(n, Num(0, 0))

C6_ZeroMaxExpRaises ==
    \A c \in Call :
        (Resolved(c) /\ Self(c).max_exp = Num(0, 0))
            => /\ pc[c] = "raised"
               /\ exc[c] = "ZeroDivisionError"
               /\ ret[c] = NoneVal

C6_Witness ==
    \E c \in Call :
        /\ Resolved(c)
        /\ Self(c).max_exp = Num(0, 0)
        /\ exc[c] = "ZeroDivisionError"

\* card1 run alone on a fresh instance constructed with the arguments a
Card1Alone(a) ==
    LET e1 == BackgroundStage(NewCard(a))
        e2 == IF e1.pc = "bg_fetch" THEN ResumeBackground(e1.obj, _image(e1.url)) ELSE e1
        e3 == IF e2.pc = "av_fetch" THEN ResumeAvatar(e2.obj, _image(e2.url)) ELSE e2
    IN  [pc |-> e3.pc, exc |-> e3.exc, ret |-> e3.ret]

Outcome(c) == [pc |-> pc[c], exc |-> exc[c], ret |-> ret[c]]

\* C8: two calls that were in flight at the same time each end as they would
\* have ended alone.
C8_ConcurrentCallsIndependent ==
    \A c, d \in Call :
        (c # d /\ d \in overlapped[c] /\ Finished(c) /\ Finished(d))
            => Outcome(c) = Card1Alone(ctor[this[c]])

\* the same, for calls on distinct instances only
C8_DistinctInstancesIndependent ==
    \A c, d \in Call :
        (c # d /\ d \in overlapped[c] /\ Finished(c) /\ Finished(d)
              /\ this[c] # this[d])
            => Outcome(c) = Card1Alone(ctor[this[c]])

\* C9: two invocations with identical constructor inputs (and the same
\* server) end in identical outcomes, on two instances or on the same one.
C9_Deterministic ==
    \A c, d \in Call :
        (Finished(c) /\ Finished(d) /\ ctor[this[c]] = ctor[this[d]])
            => Outcome(c) = Outcome(d)

\* the same, for calls that did not run concurrently on distinct instances only
C9_DistinctInstancesDeterministic ==
    \A c, d \in Call :
        (Finished(c) /\ Finished(d) /\ ctor[this[c]] = ctor[this[d]]
              /\ this[c] # this[d])
            => Outcome(c) = Outcome(d)

\* the card a call returned
Card(c) == ret[c].data[2].pixels

\* C2: the bar fill width of a returned card, the fraction bar_num / bar_den
\* with bar_den = max_exp > 0, is max(50, current_exp / max_exp * 420): never
\* below 50, 50 at current_exp = 0, 210 at max_exp / 2, 420 at max_exp, above
\* 420 beyond max_exp, and non-decreasing in current_exp for a fixed max_exp.
C2_BarWidth ==
    /\ \A c \in Call :
          pc[c] = "returned" =>
             LET cur == Self(c).current_exp
                 max == Self(c).max_exp
                 num == Card(c).bar_num
                 den == Card(c).bar_den
             IN  /\ den = max
                 /\ num = NumMax(NumMul(max, 50), NumMul(cur, 420))
                 /\ NumGE(num, NumMul(den, 50))
                 /\ cur = Num(0, 0) => num = NumMul(den, 50)
                 /\ NumMul(cur, 2) = max => num = NumMul(den, 210)
                 /\ cur = max => num = NumMul(den, 420)
                 /\ NumGT(cur, max) => NumGT(num, NumMul(den, 420))
    /\ \A c, d \in Call :
          (pc[c] = "returned" /\ pc[d] = "returned"
                /\ Self(c).max_exp = Self(d).max_exp
                /\ NumLE(Self(c).current_exp, Self(d).current_exp))
             => NumLE(Card(c).bar_num, Card(d).bar_num)

C2_Witness ==
    \E c, d \in Call :
        /\ pc[c] = "returned" /\ pc[d] = "returned"
        /\ Self(c).max_exp = Self(d).max_exp
        /\ Self(c).current_exp = Num(0, 1)
        /\ Card(c).bar_num = NumMul(Card(c).bar_den, 50)
        /\ NumGT(Self(d).current_exp, Self(d).max_exp)
        /\ NumGT(Card(d).bar_num, NumMul(Card(d).bar_den, 420))

\* t tenths written with one decimal digit
OneDecimal(t) == ToString(t \div 10) \o "." \o ToString(t % 10)

\* the tenths nearest to n / (10 * m): both neighbours at a tie
NearestTenths(n, m) ==
    LET d == NumDivMod(n, m)
    IN  { t \in { d.q, d.q + 1 } :
            IF t = d.q THEN 2 * d.r <= m ELSE 2 * (m - d.r) <= m }

\* the abbreviations of n the rule admits: the tier of the highest threshold n
\* reaches, the quotient with one decimal digit, the tier's suffix
Abbreviations(n) ==
    IF NumGE(n, Num(1000, 0))
    THEN { OneDecimal(t) \o "B" : t \in NearestTenths(n, 100000000) }
    ELSE IF NumGE(n, Num(1, 0))
    THEN { OneDecimal(t) \o "M" : t \in NearestTenths(n, 100000) }
    ELSE IF NumGE(n, Num(0, 1000))
    THEN { OneDecimal(t) \o "K" : t \in NearestTenths(n, 100) }
    ELSE { ToString(n.lo) }

\* C3: the level line and the experience line of a returned card abbreviate
\* level, current_exp and max_exp by the tier rule; 999 is written "999",
\* 1000 "1.0K", 1500000 "1.5M" and 2300000000 "2.3B".
C3_ConvertNumber ==
    \A c \in Call :
        pc[c] = "returned" =>
           LET o == Self(c)
           IN  /\ Card(c).level_text \in
                     { "LEVEL - " \o t : t \in Abbreviations(o.level) }
               /\ Card(c).exp_text \in
                     { a \o "/" \o b : a \in Abbreviations(o.current_exp),
                                       b \in Abbreviations(o.max_exp) }
               /\ o.level = Num(0, 999) => Card(c).level_text = "LEVEL - 999"
               /\ o.level = Num(0, 1000) => Card(c).level_text = "LEVEL - 1.0K"
               /\ o.level = Num(1, 500000) => Card(c).level_text = "LEVEL - 1.5M"
               /\ o.level = Num(2300, 0) => Card(c).level_text = "LEVEL - 2.3B"
               /\ (o.current_exp = Num(0, 999) /\ o.max_exp = Num(2300, 0))
                     => Card(c).exp_text = "999/2.3B"
               /\ (o.current_exp = Num(1, 500000) /\ o.max_exp = Num(0, 1000))
                     => Card(c).exp_text = "1.5M/1.0K"

C3_Witness ==
    \E c \in Call :
        /\ pc[c] = "returned"
        /\ Self(c).level = Num(2300, 0)
        /\ Self(c).current_exp = Num(0, 1000)
        /\ Self(c).max_exp = Num(1, 500000)
        /\ Card(c).level_text = "LEVEL - 2.3B"
        /\ Card(c).exp_text = "1.0K/1.5M"

Last(s) == s[Len(s)]

\* whether a stream is in binary mode: by its mode where it has one
InBinaryMode(b) == IF b.has_mode THEN b.mode = "rb" ELSE b.binary

\* C4: a stream background is accepted and decoded when it is seekable,
\* readable and binary, and rejected with InvalidImageType otherwise; a string
\* is fetched as a URL or opened as a path; any other background raises
\* InvalidImageType.
C4_BackgroundClassification ==
    \A c \in Call :
        pc[c] # "idle" =>
           LET b == bg_seen[c]
           IN  /\ b.type = "IOBase" =>
                     IF b.seekable /\ b.readable /\ InBinaryMode(b)
                     THEN steps[c] # << >> /\ steps[c][1] = "background"
                     ELSE pc[c] = "raised" /\ exc[c] = "InvalidImageType"
               /\ b.type = "str" =>
                     IF StartsWithHttp(b)
                     THEN reqs[c] # << >> /\ reqs[c][1].url = b
                     ELSE \/ steps[c] # << >> /\ steps[c][1] = "background"
                          \/ pc[c] = "raised" /\ exc[c] = "FileNotFoundError"
               /\ b.type \notin { "IOBase", "str" } =>
                     pc[c] = "raised" /\ exc[c] = "InvalidImageType"

\* the same, for the streams that have a mode attribute only
C4_FileStreamClassification ==
    \A c \in Call :
        (pc[c] # "idle" /\ bg_seen[c].type = "IOBase" /\ bg_seen[c].has_mode)
           => IF bg_seen[c].seekable /\ bg_seen[c].readable /\ InBinaryMode(bg_seen[c])
              THEN steps[c] # << >> /\ steps[c][1] = "background"
              ELSE pc[c] = "raised" /\ exc[c] = "InvalidImageType"

\* C5 as claimed: a call raises InvalidImageUrl exactly when the last answer
\* it got has a status outside 200..299.
C5_RaisesOnNon2xx ==
    \A c \in Call :
        exc[c] = "InvalidImageUrl"
            <=> (resp[c] # << >> /\ Last(resp[c]) \notin 200 .. 299)

\* C5 as amended: a call raises InvalidImageUrl exactly when the last answer
\* it got has a status other than 200; an answer of 200 is decoded and stored.
C5_RaisesOnNon200 ==
    \A c \in Call :
        /\ exc[c] = "InvalidImageUrl"
              <=> (resp[c] # << >> /\ Last(resp[c]) # 200)
        /\ (resp[c] # << >> /\ Last(resp[c]) = 200)
              => Len(steps[c]) >= Len(resp[c])

C5_Witness ==
    \E c \in Call :
        /\ resp[c] = << 200, 203 >>
        /\ steps[c] = << "background" >>
        /\ exc[c] = "InvalidImageUrl"

NonUrlAvatar(a) == a.type # "str" \/ ~StartsWithHttp(a)

Prefix(s, t) == Len(s) <= Len(t) /\ \A k \in 1 .. Len(s) : s[k] = t[k]

Stages == << "background", "avatar", "compose" >>

C10_Ordered ==
    \A c \in Call :
        /\ Prefix(steps[c], Stages)
        /\ pc[c] = "idle" => steps[c] = << >> /\ reqs[c] = << >>
        /\ pc[c] = "bg_fetch" => steps[c] = << >>
        /\ pc[c] = "av_fetch" => steps[c] = << "background" >>
        /\ pc[c] = "returned" => steps[c] = Stages
        /\ Len(reqs[c]) <= 2
        /\ \A k \in 1 .. Len(reqs[c]) :
              /\ reqs[c][k].for = "avatar" => (k = Len(reqs[c]) /\ steps[c] # << >>)
              /\ reqs[c][k].for = "background" => k = 1
        /\ Len(resp[c]) <= Len(reqs[c])
        /\ Len(reqs[c]) <= Len(resp[c]) + 1
        /\ Finished(c) => Len(reqs[c]) = Len(resp[c])
        /\ \A k \in 1 .. Len(resp[c]) : resp[c][k] # 200 => (k = Len(resp[c]) /\ pc[c] = "raised")
        /\ (pc[c] = "raised" /\ steps[c] = << >>) =>
              /\ \A k \in 1 .. Len(reqs[c]) : reqs[c][k].for # "avatar"
              /\ ret[c] = NoneVal

C10_FailureLeavesFields ==
    \A c \in Call :
        (pc[c] # "raised" /\ pc'[c] = "raised" /\ steps'[c] = << >>
              /\ exc'[c] \in { "InvalidImageType", "InvalidImageUrl" })
            => obj' = obj

\* C10: a call resolves the background, then the avatar, then composes; it
\* issues one request per URL source, at most two, and none after a failed
\* answer; a call that fails at the background has requested no avatar and
\* returned nothing, and the step in which it fails with InvalidImageType or
\* InvalidImageUrl leaves every instance's fields as they were.
C10_LinearNoRetry == []C10_Ordered /\ [][C10_FailureLeavesFields]_vars

C10_Witness ==
    \E c, d \in Call :
        /\ pc[c] = "raised" /\ exc[c] = "InvalidImageType" /\ steps[c] = << >>
        /\ reqs[c] = << >>
        /\ pc[d] = "raised" /\ exc[d] = "InvalidImageUrl" /\ steps[d] = << "background" >>
        /\ Len(reqs[d]) = 2
====
